---- MODULE Spec2Model ----
(***************************************************************************)
(* Model of the MP3 player's playback session (src/src/main.rs).           *)
(*                                                                         *)
(* Two threads of control: the foreground thread (main's browse loop and   *)
(* play_mp3) and the background thread spawned by spawn_player_thread.     *)
(* Time is counted in whole seconds (Instant values are seconds since an   *)
(* arbitrary origin; Duration::as_secs truncates to whole seconds).        *)
(*                                                                         *)
(* elapsed_seconds is an AtomicU64; the values reached here are bounded by *)
(* 2 * MaxTime, so the wrap-around of fetch_add at 2^64 is out of reach    *)
(* and plain integer addition is used.                                     *)
(***************************************************************************)
EXTENDS Integers, Sequences, FiniteSets, TLC

\* Bound on the wall clock: the clock stops ticking at MaxTime seconds.
MaxTime == 3

VARIABLES
    \* ---- foreground thread -------------------------------------------
    fpc,               \* position of the foreground thread
    result,            \* how the last play_mp3 invocation returned
    raw_mode,          \* terminal is in raw mode
    display,           \* what the terminal shows (status line included)
    \* ---- background thread -------------------------------------------
    bpc,               \* position of the background thread
    current_time,      \* toggle_pause's local current_time
    \* ---- PlayerState -------------------------------------------------
    is_paused,
    is_finished,
    elapsed_seconds,
    start_time,
    last_resume_time,
    \* ---- rodio sink --------------------------------------------------
    sink_cmd,          \* last command issued to the sink
    sink_empty,        \* Sink::empty()
    \* ---- environment -------------------------------------------------
    now,               \* Instant::now(), in seconds
    \* ---- history (observers only, never read by the program) ---------
    hist

vars == <<fpc, result, raw_mode, display, bpc, current_time, is_paused,
          is_finished, elapsed_seconds, start_time, last_resume_time,
          sink_cmd, sink_empty, now, hist>>

fgVars == <<fpc, result, raw_mode, display>>
stateVars == <<is_paused, is_finished, elapsed_seconds, start_time, last_resume_time>>
sinkVars == <<sink_cmd, sink_empty>>

\* Saturating increment of a history counter (2 stands for "more than once").
Inc(n) ==
    IF n < 2 THEN n + 1 ELSE 2

\* The history record at the entry of a play_mp3 invocation.
FreshHist ==
    [ played |-> 0,             \* seconds spent playing in this session
      paused |-> 0,             \* seconds spent paused in this session
      pauses |-> 0,             \* pause_playback calls (saturating)
      resumes |-> 0,            \* resume_playback calls (saturating)
      stores |-> 0,             \* stores of true to is_finished (saturating)
      fin_by |-> "none",        \* "quit" or "natural"
      key |-> FALSE,            \* a key press was read in this session
      ev |-> "none",            \* the event the last handle_events call got
      raw_entered |-> FALSE,    \* enable_raw_mode succeeded
      displayed |-> FALSE,      \* setup_display rendered
      created |-> FALSE,        \* create_player_state ran
      spawns |-> 0,             \* threads spawned (saturating)
      cleanups |-> 0,           \* cleanup_display calls (saturating)
      disable_tried |-> FALSE,  \* disable_raw_mode was called
      joined |-> FALSE,         \* player_thread.join() returned
      prev_paused |-> FALSE ]   \* the previous session ended paused, total > 0

\* The terminal showing screen s with an empty status line.
Screen(s) ==
    [screen |-> s, status |-> "", minutes |-> 0, seconds |-> <<0, 0>>]

\* Positions of the foreground thread at which the PlayerState exists.
SessionPcs ==
    {"spawn_player_thread", "wait_for_playback_to_finish", "sleep",
     "cleanup_display", "join"}

\* The session is in the Playing state / in the Paused state.
Live ==
    /\ fpc \in SessionPcs
    /\ ~is_finished
    /\ bpc \notin {"quit_store", "done", "panicked"}

Playing ==
    Live /\ ~is_paused

Paused ==
    Live /\ is_paused

Init ==
    /\ fpc = "select"
    /\ result = "none"
    /\ raw_mode = FALSE
    /\ display = Screen("menu")
    /\ bpc = "none"
    /\ current_time = 0
    /\ is_paused = FALSE
    /\ is_finished = FALSE
    /\ elapsed_seconds = 0
    /\ start_time = 0
    /\ last_resume_time = 0
    /\ sink_cmd = "nosink"
    /\ sink_empty = TRUE
    /\ now = 0
    /\ hist = FreshHist

----------------------------------------------------------------------------
\* Environment

\* One second of wall-clock time passes.
Tick ==
    /\ now < MaxTime
    /\ now' = now + 1
    /\ hist' = [hist EXCEPT !.played = IF Playing THEN @ + 1 ELSE @,
                            !.paused = IF Paused THEN @ + 1 ELSE @]
    /\ UNCHANGED <<fgVars, bpc, current_time, stateVars, sinkVars>>

\* The sink plays the last sample of the source: the queue becomes empty.
\* A paused sink consumes nothing; a stopped sink drops its queue.
source_exhausted ==
    /\ fpc \in {"enable_raw_mode", "setup_display", "create_player_state"} \cup SessionPcs
    /\ sink_cmd \in {"append", "play", "stop"}
    /\ ~sink_empty
    /\ sink_empty' = TRUE
    /\ UNCHANGED <<fgVars, bpc, current_time, stateVars, sink_cmd, now, hist>>

----------------------------------------------------------------------------
\* Foreground thread: main and play_mp3

\* main's loop: the selection prompt.
main_select ==
    /\ fpc = "select"
    /\ \E choice \in {"file", "exit", "error"} :
          IF choice = "file"
          THEN /\ fpc' = "try_default"
               /\ result' = "none"
               /\ hist' = [FreshHist EXCEPT !.prev_paused =
                                hist.created /\ is_paused /\ elapsed_seconds > 0]
          ELSE /\ fpc' = "exited"
               /\ UNCHANGED <<result, hist>>
    /\ UNCHANGED <<raw_mode, display, bpc, current_time, stateVars, sinkVars, now>>

\* Faulty variant of open_output_stream: raw mode is entered as soon as the device
\* is open, before the sink is created.
open_output_stream_RawFirst ==
    /\ fpc = "try_default"
    /\ \E ok \in BOOLEAN :
          IF ok
          THEN /\ fpc' = "create_sink"
               /\ raw_mode' = TRUE
               /\ hist' = [hist EXCEPT !.raw_entered = TRUE]
               /\ UNCHANGED result
          ELSE /\ fpc' = "returned"
               /\ result' = "DeviceUnavailable"
               /\ UNCHANGED <<raw_mode, hist>>
    /\ UNCHANGED <<display, bpc, current_time, stateVars, sinkVars, now>>

\* play_mp3, line 66: OutputStream::try_default()?
open_output_stream ==
    /\ fpc = "try_default"
    /\ \E ok \in BOOLEAN :
          IF ok
          THEN /\ fpc' = "create_sink"
               /\ UNCHANGED result
          ELSE /\ fpc' = "returned"
               /\ result' = "DeviceUnavailable"
    /\ UNCHANGED <<raw_mode, display, bpc, current_time, stateVars, sinkVars, now, hist>>

\* create_sink: File::open, Decoder::new_mp3, Sink::try_new, sink.append.
create_sink ==
    /\ fpc = "create_sink"
    /\ \E r \in {"Ok", "SourceUnreadable", "UnsupportedFormat", "SinkError"} :
          IF r = "Ok"
          THEN /\ fpc' = "enable_raw_mode"
               /\ sink_cmd' = "append"
               /\ sink_empty' = FALSE
               /\ UNCHANGED result
          ELSE /\ fpc' = "returned"
               /\ result' = r
               /\ UNCHANGED sinkVars
    /\ UNCHANGED <<raw_mode, display, bpc, current_time, stateVars, now, hist>>

\* play_mp3, line 69: enable_raw_mode()?
enable_raw_mode ==
    /\ fpc = "enable_raw_mode"
    /\ \E ok \in BOOLEAN :
          IF ok
          THEN /\ fpc' = "setup_display"
               /\ raw_mode' = TRUE
               /\ hist' = [hist EXCEPT !.raw_entered = TRUE]
               /\ UNCHANGED result
          ELSE /\ fpc' = "returned"
               /\ result' = "TerminalIOError"
               /\ UNCHANGED <<raw_mode, hist>>
    /\ UNCHANGED <<display, bpc, current_time, stateVars, sinkVars, now>>

\* play_mp3, line 70: setup_display(file_path)?
setup_display ==
    /\ fpc = "setup_display"
    /\ \E ok \in BOOLEAN :
          IF ok
          THEN /\ fpc' = "create_player_state"
               /\ display' = Screen("playing")
               /\ hist' = [hist EXCEPT !.displayed = TRUE]
               /\ UNCHANGED result
          ELSE /\ fpc' = "returned"
               /\ result' = "TerminalIOError"
               /\ UNCHANGED <<display, hist>>
    /\ UNCHANGED <<raw_mode, bpc, current_time, stateVars, sinkVars, now>>

\* Faulty variant of create_player_state: the flags and the total of the
\* previous session are kept (a state object reused between sessions).
create_player_state_Reused ==
    /\ fpc = "create_player_state"
    /\ fpc' = "spawn_player_thread"
    /\ is_finished' = FALSE
    /\ start_time' = now
    /\ last_resume_time' = now
    /\ hist' = [hist EXCEPT !.created = TRUE]
    /\ UNCHANGED <<result, raw_mode, display, bpc, current_time, is_paused,
                   elapsed_seconds, sinkVars, now>>

\* create_player_state: a fresh PlayerState.
create_player_state ==
    /\ fpc = "create_player_state"
    /\ fpc' = "spawn_player_thread"
    /\ is_paused' = FALSE
    /\ is_finished' = FALSE
    /\ elapsed_seconds' = 0
    /\ start_time' = now
    /\ last_resume_time' = now
    /\ hist' = [hist EXCEPT !.created = TRUE]
    /\ UNCHANGED <<result, raw_mode, display, bpc, current_time, sinkVars, now>>

\* spawn_player_thread: the background loop starts at handle_events.
spawn_player_thread ==
    /\ fpc = "spawn_player_thread"
    /\ fpc' = "wait_for_playback_to_finish"
    /\ bpc' = "handle_events"
    /\ hist' = [hist EXCEPT !.spawns = Inc(@)]
    /\ UNCHANGED <<result, raw_mode, display, current_time, stateVars, sinkVars, now>>

\* Faulty variant of wait_for_playback_to_finish: the loop condition is inverted.
wait_for_playback_to_finish_Inverted ==
    /\ fpc = "wait_for_playback_to_finish"
    /\ fpc' = IF is_finished THEN "sleep" ELSE "cleanup_display"
    /\ UNCHANGED <<result, raw_mode, display, bpc, current_time, stateVars, sinkVars, now, hist>>

\* Faulty variant of wait_for_playback_to_finish: the flag is read with
\* swap(false) instead of load.
wait_for_playback_to_finish_Swap ==
    /\ fpc = "wait_for_playback_to_finish"
    /\ fpc' = IF ~is_finished THEN "sleep" ELSE "cleanup_display"
    /\ is_finished' = FALSE
    /\ UNCHANGED <<result, raw_mode, display, bpc, current_time, is_paused,
                   elapsed_seconds, start_time, last_resume_time, sinkVars, now, hist>>

\* wait_for_playback_to_finish: one evaluation of the loop condition.
wait_for_playback_to_finish ==
    /\ fpc = "wait_for_playback_to_finish"
    /\ fpc' = IF ~is_finished THEN "sleep" ELSE "cleanup_display"
    /\ UNCHANGED <<result, raw_mode, display, bpc, current_time, stateVars, sinkVars, now, hist>>

\* wait_for_playback_to_finish: thread::sleep(100 ms) returns.
wait_sleep ==
    /\ fpc = "sleep"
    /\ fpc' = "wait_for_playback_to_finish"
    /\ UNCHANGED <<result, raw_mode, display, bpc, current_time, stateVars, sinkVars, now, hist>>

\* play_mp3, line 78: cleanup_display()?
\* disable_raw_mode()? then execute!(Clear, MoveTo)?
cleanup_display ==
    /\ fpc = "cleanup_display"
    /\ \E r \in {"Ok", "disable_failed", "clear_failed"} :
          /\ raw_mode' = IF r = "disable_failed" THEN raw_mode ELSE FALSE
          /\ display' = IF r = "Ok" THEN Screen("cleared") ELSE display
          /\ IF r = "Ok"
             THEN /\ fpc' = "join"
                  /\ UNCHANGED result
             ELSE /\ fpc' = "returned"
                  /\ result' = "TerminalIOError"
    /\ hist' = [hist EXCEPT !.cleanups = Inc(@), !.disable_tried = TRUE]
    /\ UNCHANGED <<bpc, current_time, stateVars, sinkVars, now>>

\* play_mp3, line 80: player_thread.join().unwrap(), then Ok(()).
\* join blocks until the thread has ended; unwrap panics if it panicked.
join ==
    /\ fpc = "join"
    /\ bpc \in {"done", "panicked"}
    /\ IF bpc = "done"
       THEN /\ fpc' = "returned"
            /\ result' = "Ok"
       ELSE /\ fpc' = "exited"
            /\ result' = "panic"
    /\ bpc' = "none"
    /\ hist' = [hist EXCEPT !.joined = TRUE]
    /\ UNCHANGED <<raw_mode, display, current_time, stateVars, sinkVars, now>>

\* main, line 56: play_mp3(file_path)? -- Ok goes back to the prompt,
\* Err leaves main.
main_after_play ==
    /\ fpc = "returned"
    /\ fpc' = IF result = "Ok" THEN "select" ELSE "exited"
    /\ UNCHANGED <<result, raw_mode, display, bpc, current_time, stateVars, sinkVars, now, hist>>

----------------------------------------------------------------------------
\* Background thread: the loop of spawn_player_thread

\* What event::poll / event::read can deliver to handle_events.
Events ==
    {"timeout", "poll_error", "read_error", "press_space", "press_q",
     "press_other", "release_space", "release_q", "resize"}

\* Faulty variant of Command: the test of key_event.kind is missing, so a
\* key release counts like a press.
Command_IgnoresKind(ev) ==
    IF ev \in {"press_space", "release_space"} THEN "TogglePause"
    ELSE IF ev \in {"press_q", "release_q"} THEN "Quit"
    ELSE "none"

\* handle_events' decoding of an event into a command (lines 135-145).
Command(ev) ==
    IF ev = "press_space" THEN "TogglePause"
    ELSE IF ev = "press_q" THEN "Quit"
    ELSE "none"

\* The background thread is at position pc and the process is alive.
BgAt(pc) ==
    bpc = pc /\ fpc # "exited"

\* std::time::Instant::duration_since saturates at zero; as_secs.
DurationSince(later, earlier) ==
    IF later >= earlier THEN later - earlier ELSE 0

\* Faulty variant of PausedText: minutes roll over at the hour.
PausedText_HourRollover(total_elapsed) ==
    [minutes |-> (total_elapsed \div 60) % 60,
     seconds |-> <<(total_elapsed % 60) \div 10, (total_elapsed % 60) % 10>>]

\* format!("{}:{:02}", minutes, seconds) as a number and two digits.
PausedText(total_elapsed) ==
    [minutes |-> total_elapsed \div 60,
     seconds |-> <<(total_elapsed % 60) \div 10, (total_elapsed % 60) % 10>>]

\* Faulty variant of handle_events: the 'q' arm does not stop the sink.
handle_events_NoStop ==
    /\ BgAt("handle_events")
    /\ \E ev \in Events :
          /\ bpc' = IF ev = "poll_error" THEN "panicked"
                    ELSE IF Command(ev) = "TogglePause" THEN "toggle_pause"
                    ELSE IF Command(ev) = "Quit" THEN "quit_store"
                    ELSE "update_elapsed_time"
          /\ hist' = [hist EXCEPT !.key = @ \/ ev \in {"press_space", "press_q", "press_other"},
                                  !.ev = ev]
    /\ UNCHANGED <<fgVars, current_time, stateVars, sinkVars, now>>

\* handle_events: poll, read and dispatch one event.  For 'q' the
\* sink.stop() of line 140 is part of this step.
handle_events ==
    /\ BgAt("handle_events")
    /\ \E ev \in Events :
          /\ IF ev = "poll_error"
             THEN /\ bpc' = "panicked"
                  /\ UNCHANGED sinkVars
             ELSE IF Command(ev) = "TogglePause"
             THEN /\ bpc' = "toggle_pause"
                  /\ UNCHANGED sinkVars
             ELSE IF Command(ev) = "Quit"
             THEN /\ bpc' = "quit_store"
                  /\ sink_cmd' = "stop"
                  /\ UNCHANGED sink_empty
             ELSE /\ bpc' = "update_elapsed_time"
                  /\ UNCHANGED sinkVars
          /\ hist' = [hist EXCEPT !.key = @ \/ ev \in {"press_space", "press_q", "press_other"},
                                  !.ev = ev]
    /\ UNCHANGED <<fgVars, current_time, stateVars, now>>

\* Faulty variant of quit_store: handle_events returns false after the store, so
\* the loop goes on to update_elapsed_time and the exhaustion check.
quit_store_ReturnsFalse ==
    /\ BgAt("quit_store")
    /\ is_finished' = TRUE
    /\ bpc' = "update_elapsed_time"
    /\ hist' = [hist EXCEPT !.stores = Inc(@), !.fin_by = "quit"]
    /\ UNCHANGED <<fgVars, current_time, is_paused, elapsed_seconds, start_time,
                   last_resume_time, sinkVars, now>>

\* handle_events, lines 141-142: is_finished.store(true); return true,
\* and the loop of spawn_player_thread breaks.
quit_store ==
    /\ BgAt("quit_store")
    /\ is_finished' = TRUE
    /\ bpc' = "done"
    /\ hist' = [hist EXCEPT !.stores = Inc(@), !.fin_by = "quit"]
    /\ UNCHANGED <<fgVars, current_time, is_paused, elapsed_seconds, start_time,
                   last_resume_time, sinkVars, now>>

\* Faulty variant of toggle_pause: the branch tests the flag's new value
\* instead of the value fetch_xor returned.
toggle_pause_NewValue ==
    /\ BgAt("toggle_pause")
    /\ is_paused' = ~is_paused
    /\ current_time' = now
    /\ bpc' = IF is_paused' THEN "resume_playback" ELSE "pause_playback"
    /\ UNCHANGED <<fgVars, is_finished, elapsed_seconds, start_time,
                   last_resume_time, sinkVars, now, hist>>

\* toggle_pause: fetch_xor and Instant::now().
toggle_pause ==
    /\ BgAt("toggle_pause")
    /\ is_paused' = ~is_paused
    /\ current_time' = now
    /\ bpc' = IF is_paused THEN "resume_playback" ELSE "pause_playback"
    /\ UNCHANGED <<fgVars, is_finished, elapsed_seconds, start_time,
                   last_resume_time, sinkVars, now, hist>>

\* resume_playback; execute!(...).unwrap() panics when the write fails.
resume_playback ==
    /\ BgAt("resume_playback")
    /\ sink_cmd' = "play"
    /\ last_resume_time' = current_time
    /\ current_time' = 0
    /\ \E ok \in BOOLEAN :
          IF ok
          THEN /\ display' = [display EXCEPT !.status = "Resumed",
                                             !.minutes = 0, !.seconds = <<0, 0>>]
               /\ bpc' = "update_elapsed_time"
          ELSE /\ bpc' = "panicked"
               /\ UNCHANGED display
    /\ hist' = [hist EXCEPT !.resumes = Inc(@)]
    /\ UNCHANGED <<fpc, result, raw_mode, is_paused, is_finished, elapsed_seconds,
                   start_time, sink_empty, now>>

\* pause_playback; execute!(...).unwrap() panics when the write fails.
pause_playback ==
    /\ BgAt("pause_playback")
    /\ sink_cmd' = "pause"
    /\ elapsed_seconds' = elapsed_seconds + DurationSince(current_time, last_resume_time)
    /\ current_time' = 0
    /\ \E ok \in BOOLEAN :
          IF ok
          THEN /\ display' = [display EXCEPT
                                 !.status = "Paused at",
                                 !.minutes = PausedText(elapsed_seconds').minutes,
                                 !.seconds = PausedText(elapsed_seconds').seconds]
               /\ bpc' = "update_elapsed_time"
          ELSE /\ bpc' = "panicked"
               /\ UNCHANGED display
    /\ hist' = [hist EXCEPT !.pauses = Inc(@)]
    /\ UNCHANGED <<fpc, result, raw_mode, is_paused, is_finished, start_time,
                   last_resume_time, sink_empty, now>>

\* Faulty variant of update_elapsed_time: the test of is_paused is missing.
update_elapsed_time_Unconditional ==
    /\ BgAt("update_elapsed_time")
    /\ elapsed_seconds' = DurationSince(now, start_time)
    /\ bpc' = "sink_empty"
    /\ UNCHANGED <<fgVars, current_time, is_paused, is_finished, start_time,
                   last_resume_time, sinkVars, now, hist>>

\* update_elapsed_time.
update_elapsed_time ==
    /\ BgAt("update_elapsed_time")
    /\ elapsed_seconds' = IF ~is_paused
                          THEN DurationSince(now, start_time)
                          ELSE elapsed_seconds
    /\ bpc' = "sink_empty"
    /\ UNCHANGED <<fgVars, current_time, is_paused, is_finished, start_time,
                   last_resume_time, sinkVars, now, hist>>

\* Faulty variant of check_sink_empty: the break after the store is missing.
check_sink_empty_NoBreak ==
    /\ BgAt("sink_empty")
    /\ IF sink_empty
       THEN /\ is_finished' = TRUE
            /\ hist' = [hist EXCEPT !.stores = Inc(@), !.fin_by = "natural"]
       ELSE /\ UNCHANGED <<is_finished, hist>>
    /\ bpc' = "handle_events"
    /\ UNCHANGED <<fgVars, current_time, is_paused, elapsed_seconds, start_time,
                   last_resume_time, sinkVars, now>>

\* spawn_player_thread, lines 125-128: the natural-completion check.
check_sink_empty ==
    /\ BgAt("sink_empty")
    /\ IF sink_empty
       THEN /\ is_finished' = TRUE
            /\ bpc' = "done"
            /\ hist' = [hist EXCEPT !.stores = Inc(@), !.fin_by = "natural"]
       ELSE /\ bpc' = "handle_events"
            /\ UNCHANGED <<is_finished, hist>>
    /\ UNCHANGED <<fgVars, current_time, is_paused, elapsed_seconds, start_time,
                   last_resume_time, sinkVars, now>>

----------------------------------------------------------------------------
Foreground ==
    \/ main_select
    \/ open_output_stream
    \/ create_sink
    \/ enable_raw_mode
    \/ setup_display
    \/ create_player_state
    \/ spawn_player_thread
    \/ wait_for_playback_to_finish
    \/ wait_sleep
    \/ cleanup_display
    \/ join
    \/ main_after_play

Background ==
    \/ handle_events
    \/ quit_store
    \/ toggle_pause
    \/ resume_playback
    \/ pause_playback
    \/ update_elapsed_time
    \/ check_sink_empty

Next ==
    \/ Tick
    \/ source_exhausted
    \/ main_select
    \/ open_output_stream
    \/ create_sink
    \/ enable_raw_mode
    \/ setup_display
    \/ create_player_state
    \/ spawn_player_thread
    \/ wait_for_playback_to_finish
    \/ wait_sleep
    \/ cleanup_display
    \/ join
    \/ main_after_play
    \/ handle_events
    \/ quit_store
    \/ toggle_pause
    \/ resume_playback
    \/ pause_playback
    \/ update_elapsed_time
    \/ check_sink_empty

Spec ==
    Init /\ [][Next]_vars

\* Both threads are scheduled by the operating system: a thread that can
\* take a step eventually takes one.
FairSpec ==
    Spec /\ WF_vars(Foreground) /\ WF_vars(Background)

----------------------------------------------------------------------------
\* The pause rendering on its own: the first SPACE of a session is being
\* handled t seconds after the session started (no loop iteration has
\* stored a total yet), for every t up to FormatMaxTotal; pause_playback
\* then computes the total t and renders it.

FormatMaxTotal == 3600

FormatInit ==
    \E t \in 0..FormatMaxTotal :
        /\ fpc = "wait_for_playback_to_finish"
        /\ result = "none"
        /\ raw_mode = TRUE
        /\ display = Screen("playing")
        /\ bpc = "pause_playback"
        /\ current_time = t
        /\ is_paused = TRUE
        /\ is_finished = FALSE
        /\ elapsed_seconds = 0
        /\ start_time = 0
        /\ last_resume_time = 0
        /\ sink_cmd = "append"
        /\ sink_empty = FALSE
        /\ now = t
        /\ hist = [FreshHist EXCEPT !.played = t, !.key = TRUE, !.ev = "press_space",
                                    !.raw_entered = TRUE, !.displayed = TRUE,
                                    !.created = TRUE, !.spawns = 1]

FormatNext ==
    pause_playback

FormatSpec ==
    FormatInit /\ [][FormatNext]_vars

----------------------------------------------------------------------------
\* Properties

\* C1: right after every transition into Paused (and for as long as the
\* session stays paused) elapsed_seconds equals the number of seconds the
\* session has spent playing.
C1_PausedTotalIsPlayedTime ==
    (fpc \in SessionPcs /\ is_paused /\ bpc # "pause_playback")
        => elapsed_seconds = hist.played

\* C2: a session with exactly one pause and one resume, a non-zero paused
\* gap, ended by Quit, finishes with elapsed_seconds equal to the seconds
\* spent playing (the paused gap excluded).
C2_QuitTotalExcludesPausedGap ==
    ( /\ fpc \in SessionPcs
      /\ is_finished
      /\ hist.fin_by = "quit"
      /\ hist.pauses = 1
      /\ hist.resumes = 1
      /\ hist.paused > 0 )
        => elapsed_seconds = hist.played

\* C3: within a session no step stores a smaller value in elapsed_seconds.
C3_ElapsedMonotonic ==
    [][(fpc \in SessionPcs) => (elapsed_seconds' >= elapsed_seconds)]_vars

\* C4: within a session the store of true to is_finished is executed at
\* most once, is_finished is true exactly when that store has happened, and
\* once true it stays true.
C4_FinishedSetOnce ==
    /\ [](hist.created => (hist.stores <= 1 /\ (is_finished <=> hist.stores = 1)))
    /\ [][(hist.created /\ is_finished) => is_finished']_vars

\* C4 witness: finished by Quit while the sink is exhausted as well (both
\* triggers were possible), the foreground still waiting.
C4_Witness ==
    /\ fpc \in {"wait_for_playback_to_finish", "sleep"}
    /\ is_finished
    /\ hist.fin_by = "quit"
    /\ sink_empty
    /\ hist.stores = 1

\* C5: once is_finished is true the background thread does nothing more:
\* is_paused, elapsed_seconds and last_resume_time keep their values, no
\* sink command is issued and no input is polled.
C5_NoMutationAfterFinished ==
    [][(hist.created /\ is_finished)
          => /\ UNCHANGED <<is_paused, elapsed_seconds, last_resume_time, sink_cmd>>
             /\ ~(bpc = "handle_events" /\ bpc' # bpc)
             /\ bpc' \in {"done", "none"}]_vars

\* C5 witness: a finished session (ended by Quit while paused) in which the
\* foreground is still asleep, so that steps are taken after Finished.
C5_Witness ==
    /\ fpc = "sleep"
    /\ is_finished
    /\ is_paused
    /\ hist.fin_by = "quit"
    /\ bpc = "done"

\* C6: in a session where the sink is exhausted and no key is pressed, the
\* invocation eventually returns Ok with the terminal restored exactly once
\* and the background thread joined.
C6_NaturalCompletionReturnsOk ==
    (fpc \in SessionPcs /\ hist.spawns = 1 /\ sink_empty /\ ~hist.key)
        ~> \/ hist.key
           \/ (fpc = "returned" /\ result = "Ok" /\ hist.cleanups = 1 /\ hist.joined)

\* C7: cleanup_display is run at most once per session, only when
\* is_finished is true (the foreground's wait loop has read it as true), and
\* it has been run once the foreground is past it.
C7_CleanupOnceAfterFinished ==
    /\ hist.cleanups <= 1
    /\ (hist.cleanups = 1 => is_finished)
    /\ (fpc = "cleanup_display" => is_finished)
    /\ ( (hist.spawns = 1
          /\ fpc \notin {"wait_for_playback_to_finish", "sleep", "cleanup_display"})
            => hist.cleanups = 1 )

\* C7 witness: the session ended by Quit and the terminal has been restored.
C7_Witness ==
    /\ hist.fin_by = "quit"
    /\ hist.cleanups = 1
    /\ fpc = "join"
    /\ ~raw_mode

\* C8: every return of play_mp3 after enable_raw_mode succeeded has called
\* disable_raw_mode.
C8_RawModeLeftOnEveryReturn ==
    (fpc = "returned" /\ hist.raw_entered) => hist.disable_tried

\* C9: one background thread per invocation, joined on every return taken
\* after the spawn.
C9_JoinedOnEveryReturn ==
    /\ hist.spawns <= 1
    /\ (fpc = "returned" /\ hist.spawns = 1) => hist.joined

\* C10: when the device, the file or the decoder fails, play_mp3 returns
\* the error with raw mode never entered, nothing rendered, no PlayerState
\* created and no thread spawned.
C10_EarlyFailureStartsNothing ==
    result \in {"DeviceUnavailable", "SourceUnreadable", "UnsupportedFormat"}
        => /\ ~hist.raw_entered
           /\ ~raw_mode
           /\ ~hist.displayed
           /\ ~hist.created
           /\ hist.spawns = 0
           /\ bpc = "none"

\* C10 witness: play_mp3 has returned a decode failure.
C10_Witness ==
    fpc = "returned" /\ result = "UnsupportedFormat"

\* C11: a Quit read while Playing or Paused stops the sink first and sets
\* is_finished afterwards: whenever the store of the Quit arm is pending or
\* done the sink has been stopped, once done is_finished is true, and the
\* step that stores ends the loop without touching elapsed_seconds.
C11_QuitStopsThenFinishes ==
    /\ [](bpc = "quit_store" => (sink_cmd = "stop" /\ hist.ev = "press_q"))
    /\ []((hist.created /\ hist.fin_by = "quit")
             => (is_finished /\ sink_cmd = "stop" /\ bpc \in {"done", "none"}))
    /\ [][(bpc = "quit_store" /\ bpc' # bpc)
             => (is_finished' /\ bpc' = "done" /\ UNCHANGED elapsed_seconds)]_vars

\* C11 witness: Quit was handled while the session was paused.
C11_Witness ==
    /\ hist.fin_by = "quit"
    /\ is_finished
    /\ is_paused
    /\ sink_cmd = "stop"
    /\ fpc \in {"wait_for_playback_to_finish", "sleep"}

\* C12: the store of is_finished made because the sink is empty happens
\* only while the session is playing: a session finished by exhaustion has
\* is_paused false.
C12_NaturalFinishOnlyWhilePlaying ==
    (hist.created /\ hist.fin_by = "natural") => ~is_paused

\* C13: once the PlayerState is shared, no step of the foreground thread
\* changes is_paused, elapsed_seconds, last_resume_time or is_finished (every
\* change is made by a step of the background thread), and the foreground
\* reaches the join only with is_finished true.
C13_BackgroundIsSoleWriter ==
    /\ [][(fpc \in SessionPcs /\ fpc' # fpc)
             => UNCHANGED <<is_paused, elapsed_seconds, last_resume_time,
                            is_finished, start_time>>]_vars
    /\ [][(fpc \in SessionPcs
           /\ <<is_paused, elapsed_seconds, last_resume_time, is_finished>>'
                 # <<is_paused, elapsed_seconds, last_resume_time, is_finished>>)
             => (bpc' # bpc /\ fpc' = fpc)]_vars
    /\ []((fpc \in {"cleanup_display", "join"} \/ hist.joined) => is_finished)

\* C13 witness: the thread has been joined after it wrote every field.
C13_Witness ==
    /\ hist.joined
    /\ is_finished
    /\ is_paused
    /\ elapsed_seconds > 0
    /\ last_resume_time > start_time

\* C14 as claimed: after a playback that ended by Quit or by natural
\* completion the process goes on only through the selection prompt (it is
\* never left with the error of that playback), and a session starts fresh.
C14_PlaybackEndReturnsToPrompt ==
    /\ (hist.fin_by # "none" /\ fpc \in {"returned", "exited"}) => result = "Ok"
    /\ fpc = "spawn_player_thread"
          => (~is_paused /\ ~is_finished /\ elapsed_seconds = 0)

\* C14 as amended: when play_mp3 returns Ok after a playback that ended by
\* Quit or by natural completion, control goes back to the selection prompt
\* (an Err of cleanup_display leaves main instead), and every session that
\* is started begins with is_paused false, is_finished false and
\* elapsed_seconds 0, whatever the previous session left.
C14_OkReturnsToPromptAndFreshState ==
    /\ [][(fpc = "returned" /\ fpc' # fpc)
             => fpc' = (IF result = "Ok" THEN "select" ELSE "exited")]_vars
    /\ []((hist.fin_by # "none" /\ fpc \in {"returned", "exited"})
             => result \in {"Ok", "TerminalIOError"})
    /\ [](fpc = "spawn_player_thread"
             => (~is_paused /\ ~is_finished /\ elapsed_seconds = 0
                 /\ last_resume_time = start_time /\ bpc = "none"))

\* C14 witness: a session is about to start its thread after a previous
\* session ended paused with a non-zero total.
C14_Witness ==
    /\ fpc = "spawn_player_thread"
    /\ hist.prev_paused
    /\ hist.created

\* C15: "Paused at M:SS" shows the total t as minutes t / 60 (no hour
\* rollover) and two digits of seconds t % 60; 0, 59, 60, 61, 3599 and 3600
\* render as 0:00, 0:59, 1:00, 1:01, 59:59 and 60:00.
C15_PausedTextFormat ==
    display.status = "Paused at"
        => /\ Len(display.seconds) = 2
           /\ display.seconds[1] \in 0..5
           /\ display.seconds[2] \in 0..9
           /\ 60 * display.minutes + 10 * display.seconds[1] + display.seconds[2]
                 = elapsed_seconds
           /\ (elapsed_seconds = 0 => <<display.minutes, display.seconds>> = <<0, <<0, 0>>>>)
           /\ (elapsed_seconds = 59 => <<display.minutes, display.seconds>> = <<0, <<5, 9>>>>)
           /\ (elapsed_seconds = 60 => <<display.minutes, display.seconds>> = <<1, <<0, 0>>>>)
           /\ (elapsed_seconds = 61 => <<display.minutes, display.seconds>> = <<1, <<0, 1>>>>)
           /\ (elapsed_seconds = 3599 => <<display.minutes, display.seconds>> = <<59, <<5, 9>>>>)
           /\ (elapsed_seconds = 3600 => <<display.minutes, display.seconds>> = <<60, <<0, 0>>>>)

\* C15 witness: a total of one hour has been rendered.
C15_Witness ==
    /\ display.status = "Paused at"
    /\ elapsed_seconds = 3600
    /\ display.minutes = 60

\* C16: a TogglePause flips is_paused and runs the matching half: a pause
\* (sink.pause, an addition to the total) only when the sink was last told
\* to play or was never paused, a resume (sink.play, last_resume_time set
\* to the toggle's time) only when it was last paused; so pauses and
\* resumes alternate, starting with a pause, and whenever the loop is at
\* the top of an iteration is_paused is true exactly when the last sink
\* command was pause.
C16_ToggleAlternates ==
    /\ [][(bpc = "toggle_pause" /\ bpc' # bpc)
             => /\ is_paused' = ~is_paused
                /\ bpc' = (IF is_paused' THEN "pause_playback" ELSE "resume_playback")]_vars
    /\ [][(bpc = "pause_playback" /\ bpc' # bpc)
             => /\ sink_cmd \in {"append", "play"}
                /\ sink_cmd' = "pause"
                /\ is_paused
                /\ elapsed_seconds' >= elapsed_seconds
                /\ hist.pauses = hist.resumes]_vars
    /\ [][(bpc = "resume_playback" /\ bpc' # bpc)
             => /\ sink_cmd = "pause"
                /\ sink_cmd' = "play"
                /\ ~is_paused
                /\ last_resume_time' = current_time
                /\ UNCHANGED elapsed_seconds
                /\ (hist.pauses = 2 \/ hist.pauses = hist.resumes + 1)]_vars
    /\ []((fpc \in SessionPcs /\ bpc = "handle_events")
             => (is_paused <=> sink_cmd = "pause"))

\* C16 witness: the loop is back at the top of an iteration after a pause
\* and a resume made later than the session's start.
C16_Witness ==
    /\ bpc = "handle_events"
    /\ hist.pauses = 1
    /\ hist.resumes = 1
    /\ sink_cmd = "play"
    /\ ~is_paused
    /\ last_resume_time > start_time

\* C17: a handle_events call that gets a timeout, a failed read, a key
\* release, a non-key event or a press of another key returns false (the
\* loop goes on to update_elapsed_time) and leaves is_paused, is_finished,
\* last_resume_time and the sink as they were.
C17_NoCommandChangesNothing ==
    [][(bpc = "handle_events" /\ bpc' # bpc
        /\ hist'.ev \in {"timeout", "read_error", "press_other",
                         "release_space", "release_q", "resize"})
          => /\ bpc' = "update_elapsed_time"
             /\ UNCHANGED <<is_paused, is_finished, last_resume_time, elapsed_seconds,
                            sink_cmd, sink_empty, display>>]_vars

\* C17 witness: a release of the space key was read while the session was
\* paused, and the session is still paused with the sink paused.
C17_Witness ==
    /\ bpc = "update_elapsed_time"
    /\ hist.ev = "release_space"
    /\ is_paused
    /\ sink_cmd = "pause"
    /\ ~is_finished

\* C18: while the session is paused (the pause's own addition made) no
\* step changes elapsed_seconds, however many seconds pass and however many
\* loop iterations run.
C18_PausedTotalFrozen ==
    [][(fpc \in SessionPcs /\ is_paused /\ bpc # "pause_playback")
          => UNCHANGED elapsed_seconds]_vars

\* C18 witness: update_elapsed_time has just run in a paused session in
\* which time has passed since the pause, and the total is not the
\* wall-clock time since the start.
C18_Witness ==
    /\ bpc = "sink_empty"
    /\ is_paused
    /\ hist.pauses = 1
    /\ hist.ev = "timeout"
    /\ now > start_time
    /\ elapsed_seconds # now - start_time

\* C19: whenever the background thread has stopped running in a session,
\* by Quit, by natural completion or by a panic, is_finished is true (so
\* the foreground wait ends).
C19_StoppedThreadMeansFinished ==
    (fpc \in SessionPcs /\ bpc \in {"done", "panicked"}) => is_finished

\* C20: whenever the background thread is running (about to poll, to
\* render a status or anywhere else in its loop) the terminal is in raw
\* mode with the initial display rendered, cleanup_display has not been
\* called and the foreground is still in its wait loop.
C20_BackgroundUsesRawTerminal ==
    bpc \in {"handle_events", "toggle_pause", "pause_playback", "resume_playback",
             "quit_store", "update_elapsed_time", "sink_empty"}
        => /\ raw_mode
           /\ hist.raw_entered
           /\ hist.displayed
           /\ hist.cleanups = 0
           /\ display.screen = "playing"
           /\ fpc \in {"wait_for_playback_to_finish", "sleep"}

\* C20 witness: "Resumed" has been rendered and the loop is about to poll
\* again, the foreground asleep in its wait loop.
C20_Witness ==
    /\ bpc = "handle_events"
    /\ display.status = "Resumed"
    /\ fpc = "sleep"
    /\ raw_mode

====
